---- MODULE Spec2Model ----
(***************************************************************************)
(* RAMulator: the Random Access Machine of src/src/ram.rs and the          *)
(* assembler of src/src/parser.rs.                                         *)
(*                                                                         *)
(* Text (a source word, a line of standard input) is a sequence of         *)
(* one-character strings, so that ends_with, starts_with, pop, trim and    *)
(* parse::<i32> are computed as the code computes them.                    *)
(*                                                                         *)
(* A usize that results from `v as usize` is held as the i32 v it was cast *)
(* from: a negative v stands for the wrapped value 2^BITS + v, which is    *)
(* larger than every vector length.                                        *)
(***************************************************************************)
EXTENDS Integers, Sequences, FiniteSets, TLC

VARIABLES
    build,                \* "debug" (overflow checks on) or "release" (off)
    finished,             \* RAM.finished
    instruction_stack,    \* RAM.instruction_stack
    instruction_pointer,  \* RAM.instruction_pointer
    registers,            \* RAM.registers: register i is registers[i + 1]
    stdout,               \* the values println! has written, in order
    stderr,               \* the messages eprintln! has written, in order
    panic,                \* "none", or the panic that ended the process
    ret,                  \* what the last call of execute_next_instruction returned
    steps,                \* instructions fetched so far
    loaded,               \* load_instructions has been called
    cursor,               \* Parser.cursor
    missing_labels,       \* Parser.missing_labels
    label_map,            \* Parser.label_map
    source,               \* the source handed to the last parse call
    entry,                \* the function the last parse call entered
    result,               \* what the last parse call returned
    tokens                \* NewParser.tokens

ramVars == <<finished, instruction_stack, instruction_pointer, registers,
             stdout, stderr, ret, steps, loaded>>
parserVars == <<cursor, missing_labels, label_map, source, entry, result>>
tokenVars == <<tokens>>
vars == <<build, panic, ramVars, parserVars, tokenVars>>

-----------------------------------------------------------------------------
(* Bounds of the model *)

\* Longest program handed to load_instructions.
MaxProg == 2
\* Most instructions one run fetches.
MaxSteps == 5
\* Largest register index the model lets the register vector grow to.
MaxReg == 7

-----------------------------------------------------------------------------
(* i32 *)

I32Max == 2147483647
I32Min == -2147483647 - 1

AddOverflows(a, b) == (b > 0 /\ a > I32Max - b) \/ (b < 0 /\ a < I32Min - b)

\* a + b reduced into the i32 range (wrapping_add), computed without leaving it.
WrapAdd(a, b) ==
    IF ~AddOverflows(a, b) THEN a + b
    ELSE IF b > 0 THEN I32Min + ((a - (I32Max - b)) - 1)
    ELSE (a - I32Min) + (b - I32Min)

SubOverflows(a, b) ==
    IF b = I32Min THEN a >= 0 ELSE AddOverflows(a, 0 - b)

\* a - b reduced into the i32 range (wrapping_sub).
WrapSub(a, b) ==
    IF b = I32Min THEN (IF a >= 0 THEN a + I32Min ELSE a - I32Min)
    ELSE WrapAdd(a, 0 - b)

\* a * b reduced into the i32 range (wrapping_mul), by doubling:
\* b = 2 * (b \div 2) + (b % 2), with \div rounding down.
RECURSIVE WrapMul(_, _)
WrapMul(a, b) ==
    IF b = 0 THEN 0
    ELSE IF b = -1 THEN WrapSub(0, a)
    ELSE CHOOSE p \in { IF b % 2 = 0 THEN WrapAdd(h, h)
                        ELSE WrapAdd(WrapAdd(h, h), a) :
                        h \in { WrapMul(a, b \div 2) } } : TRUE

\* The least integer >= I32Min / d, for d > 0.
CeilMinDiv(d) == (I32Min \div d) + (IF I32Min % d = 0 THEN 0 ELSE 1)

MulOverflows(a, b) ==
    IF a = 0 \/ b = 0 THEN FALSE
    ELSE IF a > 0 /\ b > 0 THEN a > I32Max \div b
    ELSE IF a > 0 /\ b < 0 THEN b < CeilMinDiv(a)
    ELSE IF a < 0 /\ b > 0 THEN a < CeilMinDiv(b)
    ELSE a = I32Min \/ b = I32Min \/ (0 - a) > I32Max \div (0 - b)

\* a / b of Rust: the quotient truncated toward zero (b # 0, no overflow).
TruncDiv(a, b) ==
    IF b = I32Min THEN (IF a = I32Min THEN 1 ELSE 0)
    ELSE LET q == a \div b
             m == IF b < 0 THEN 0 - b ELSE b
         IN  IF q < 0 /\ a % m # 0 THEN q + 1 ELSE q

-----------------------------------------------------------------------------
(* Instructions (src/src/lib.rs) *)

OpCodes == {"LOAD", "STORE", "ADD", "SUB", "MULT", "DIV", "READ", "WRITE",
            "JUMP", "JGTZ", "JZERO", "HALT"}

OpTypes == {"Register", "Value", "ReadReg", "NoValue"}

Instruction(c, t, v) == [op_code |-> c, op_type |-> t, op_value |-> v]

\* Register used as an input and output of the executed instructions.
ADDER == 0

-----------------------------------------------------------------------------
(* Text *)

Digits == {"0", "1", "2", "3", "4", "5", "6", "7", "8", "9"}

DigitVal(c) ==
    CASE c = "0" -> 0 [] c = "1" -> 1 [] c = "2" -> 2 [] c = "3" -> 3
      [] c = "4" -> 4 [] c = "5" -> 5 [] c = "6" -> 6 [] c = "7" -> 7
      [] c = "8" -> 8 [] c = "9" -> 9

Whitespace == {" ", "\t", "\n", "\r"}

\* str::trim: leading and trailing whitespace removed.
RECURSIVE TrimStart(_)
TrimStart(s) ==
    IF s # <<>> /\ Head(s) \in Whitespace THEN TrimStart(Tail(s)) ELSE s

RECURSIVE TrimEnd(_)
TrimEnd(s) ==
    IF s # <<>> /\ s[Len(s)] \in Whitespace
    THEN TrimEnd(SubSeq(s, 1, Len(s) - 1)) ELSE s

Trim(s) == TrimEnd(TrimStart(s))

\* Result<i32, ParseIntError>.
ParseErr == [ok |-> FALSE, val |-> 0]
ParseOk(v) == [ok |-> TRUE, val |-> v]

\* The digits ds accumulated onto acc, away from zero when neg; ParseErr when
\* the value leaves the i32 range (checked_mul, checked_add / checked_sub).
RECURSIVE ParseDigits(_, _, _)
ParseDigits(ds, acc, neg) ==
    IF ds = <<>> THEN ParseOk(acc)
    ELSE LET d == DigitVal(Head(ds))
         IN  IF ~neg
             THEN IF acc > (I32Max - d) \div 10 THEN ParseErr
                  ELSE ParseDigits(Tail(ds), acc * 10 + d, neg)
             ELSE IF acc < ((I32Min + d) \div 10)
                           + (IF (I32Min + d) % 10 = 0 THEN 0 ELSE 1) THEN ParseErr
                  ELSE ParseDigits(Tail(ds), acc * 10 - d, neg)

\* str::parse::<i32>: an optional sign, then one or more digits, in range.
ParseI32(s) ==
    LET signed == s # <<>> /\ Head(s) \in {"+", "-"}
        ds     == IF signed THEN Tail(s) ELSE s
    IN  IF ds = <<>> \/ \E i \in 1..Len(ds) : ds[i] \notin Digits THEN ParseErr
        ELSE ParseDigits(ds, 0, signed /\ Head(s) = "-")

-----------------------------------------------------------------------------
(* The register file (src/src/ram.rs) *)

\* Mutant of Resize: the new slots are not zero.
Resize_Ones(regs, n) == [i \in 1..n |-> IF i <= Len(regs) THEN regs[i] ELSE 1]

\* Vec::resize(n, 0): truncated or padded with zeros to length n.
Resize(regs, n) == [i \in 1..n |-> IF i <= Len(regs) THEN regs[i] ELSE 0]

\* What an access to index idx does to the vector before it reads or writes
\* the slot: the vector it leaves, and the panic it ends in ("none": the slot
\* exists). idx = -1 is usize::MAX, so idx + 1 overflows: a panic with
\* overflow checks, and without them resize(0, 0) followed by an index out of
\* bounds. Any other negative idx asks resize for more than isize::MAX bytes.
\* "alloc" marks a vector longer than the model follows (idx > MaxReg).
Grow(regs, idx) ==
    IF idx > MaxReg THEN [regs |-> regs, panic |-> "alloc"]
    ELSE IF idx >= 0
    THEN [regs  |-> IF idx >= Len(regs) THEN Resize(regs, idx + 1) ELSE regs,
          panic |-> "none"]
    ELSE IF idx = -1
    THEN IF build = "debug"
         THEN [regs |-> regs, panic |-> "attempt to add with overflow"]
         ELSE [regs |-> <<>>, panic |-> "index out of bounds"]
    ELSE [regs |-> regs, panic |-> "capacity overflow"]

\* get_register_data: [regs, val, panic].
GetRegisterData(regs, idx) ==
    LET g == Grow(regs, idx)
    IN  [regs  |-> g.regs,
         val   |-> IF g.panic = "none" THEN g.regs[idx + 1] ELSE 0,
         panic |-> g.panic]

\* Mutant of GetReadregisterData: one dereference only.
GetReadregisterData_Single(regs, idx) == GetRegisterData(regs, idx)

\* get_readregister_data: the register whose index is the content of idx.
GetReadregisterData(regs, idx) ==
    LET reg_data == GetRegisterData(regs, idx)
    IN  IF reg_data.panic # "none" THEN reg_data
        ELSE GetRegisterData(reg_data.regs, reg_data.val)

\* set_register_data: [regs, val, panic] (val is the data written).
SetRegisterData(regs, idx, data) ==
    LET g == Grow(regs, idx)
    IN  [regs  |-> IF g.panic = "none"
                   THEN [g.regs EXCEPT ![idx + 1] = data] ELSE g.regs,
         val   |-> data,
         panic |-> g.panic]

\* Mutant of SetReadregisterData: the register idx itself is written.
SetReadregisterData_Direct(regs, idx, data) == SetRegisterData(regs, idx, data)

\* set_readregister_data.
SetReadregisterData(regs, idx, data) ==
    LET reg_idx == GetRegisterData(regs, idx)
    IN  IF reg_idx.panic # "none" THEN reg_idx
        ELSE SetRegisterData(reg_idx.regs, reg_idx.val, data)

\* Mutant of GetInstructionData: an instruction without operand decodes to 0.
GetInstructionData_Default(regs, inst) ==
    CASE inst.op_type = "Register" -> GetRegisterData(regs, inst.op_value)
      [] inst.op_type = "Value" ->
            [regs |-> regs, val |-> inst.op_value, panic |-> "none"]
      [] inst.op_type = "ReadReg" -> GetReadregisterData(regs, inst.op_value)
      [] inst.op_type = "NoValue" -> [regs |-> regs, val |-> 0, panic |-> "none"]

\* get_instruction_data.
GetInstructionData(regs, inst) ==
    CASE inst.op_type = "Register" -> GetRegisterData(regs, inst.op_value)
      [] inst.op_type = "Value" ->
            [regs |-> regs, val |-> inst.op_value, panic |-> "none"]
      [] inst.op_type = "ReadReg" -> GetReadregisterData(regs, inst.op_value)
      [] inst.op_type = "NoValue" ->
            [regs |-> regs, val |-> 0, panic |-> "Instruction requires an argument"]

\* The value of register i as a reader sees it: 0 beyond the vector.
Reg(regs, i) == IF i + 1 <= Len(regs) THEN regs[i + 1] ELSE 0

-----------------------------------------------------------------------------
(* execute_next_instruction (src/src/ram.rs) *)

\* Option<Instruction>, and the value of ret before the first call.
NoCall == [kind |-> "NoCall", inst |-> Instruction("HALT", "NoValue", 0)]
None == [kind |-> "None", inst |-> Instruction("HALT", "NoValue", 0)]
Some(inst) == [kind |-> "Some", inst |-> inst]

Ok(regs, val) == [regs |-> regs, val |-> val, panic |-> "none"]
Panicked(regs, msg) == [regs |-> regs, val |-> 0, panic |-> msg]

\* adder_data (op) data: with overflow checks an overflow panics, without
\* them it wraps; a division by zero and i32::MIN / -1 panic in every build.
Compute(op, a, d) ==
    CASE op = "ADD" ->
            IF AddOverflows(a, d) /\ build = "debug"
            THEN [val |-> 0, panic |-> "attempt to add with overflow"]
            ELSE [val |-> WrapAdd(a, d), panic |-> "none"]
      [] op = "SUB" ->
            IF SubOverflows(a, d) /\ build = "debug"
            THEN [val |-> 0, panic |-> "attempt to subtract with overflow"]
            ELSE [val |-> WrapSub(a, d), panic |-> "none"]
      [] op = "MULT" ->
            IF MulOverflows(a, d) /\ build = "debug"
            THEN [val |-> 0, panic |-> "attempt to multiply with overflow"]
            ELSE [val |-> WrapMul(a, d), panic |-> "none"]
      [] op = "DIV" ->
            IF d = 0 THEN [val |-> 0, panic |-> "attempt to divide by zero"]
            ELSE IF a = I32Min /\ d = -1
            THEN [val |-> 0, panic |-> "attempt to divide with overflow"]
            ELSE [val |-> TruncDiv(a, d), panic |-> "none"]

\* Mutant of ExecLoad: the value is decoded and the accumulator not written.
ExecLoad_Keep(regs, inst) == GetInstructionData(regs, inst)

\* LOAD: the registers after the instruction.
ExecLoad(regs, inst) ==
    LET data == GetInstructionData(regs, inst)
    IN  IF data.panic # "none" THEN data
        ELSE SetRegisterData(data.regs, ADDER, data.val)

\* STORE.
ExecStore(regs, inst) ==
    LET data == GetRegisterData(regs, ADDER)
    IN  CASE inst.op_type = "Register" ->
                SetRegisterData(data.regs, inst.op_value, data.val)
          [] inst.op_type = "ReadReg" ->
                SetReadregisterData(data.regs, inst.op_value, data.val)
          [] OTHER ->
                Panicked(data.regs, "Instruction STORE requires a register")

\* ADD, SUB, MULT, DIV.
ExecArith(regs, inst) ==
    LET data == GetInstructionData(regs, inst)
    IN  IF data.panic # "none" THEN data
        ELSE LET adder_data == GetRegisterData(data.regs, ADDER)
                 c == Compute(inst.op_code, adder_data.val, data.val)
             IN  IF c.panic # "none" THEN Panicked(adder_data.regs, c.panic)
                 ELSE SetRegisterData(adder_data.regs, ADDER, c.val)

\* READ, once the input line has parsed to data.
ExecRead(regs, inst, data) ==
    CASE inst.op_type = "Register" ->
            SetRegisterData(regs, inst.op_value, data)
      [] inst.op_type = "ReadReg" ->
            LET register == GetRegisterData(regs, inst.op_value)
            IN  IF register.panic # "none" THEN register
                ELSE SetRegisterData(register.regs, register.val, data)
      [] OTHER -> Panicked(regs, "Instruction READ requires a register")

\* Mutant of ExecCondJump: JGTZ also jumps when the accumulator is zero.
ExecCondJump_GeZero(regs, inst) ==
    LET adder_data == GetRegisterData(regs, ADDER)
        taken == IF inst.op_code = "JGTZ" THEN adder_data.val >= 0
                 ELSE adder_data.val = 0
        index == GetInstructionData(adder_data.regs, inst)
    IN  IF taken THEN [regs |-> index.regs, val |-> index.val,
                       panic |-> index.panic, taken |-> TRUE]
        ELSE [regs |-> adder_data.regs, val |-> 0, panic |-> "none",
              taken |-> FALSE]

\* JGTZ and JZERO: the registers after the instruction, the jump target in
\* val, and whether the jump is taken.
ExecCondJump(regs, inst) ==
    LET adder_data == GetRegisterData(regs, ADDER)
        taken == IF inst.op_code = "JGTZ" THEN adder_data.val > 0
                 ELSE adder_data.val = 0
        index == GetInstructionData(adder_data.regs, inst)
    IN  IF taken THEN [regs |-> index.regs, val |-> index.val,
                       panic |-> index.panic, taken |-> TRUE]
        ELSE [regs |-> adder_data.regs, val |-> 0, panic |-> "none",
              taken |-> FALSE]

\* Mutant of Println: the value is put in front of what was written before.
Println_Front(out, data) == <<data>> \o out

\* println!("{data}"): one more value on standard output.
Println(out, data) == Append(out, data)

\* Mutant of Halt: HALT is fetched and nothing else happens.
Halt_NoFlag(m) == m

\* HALT, on the machine m the fetch has left.
Halt(m) == [m EXCEPT !.finished = TRUE]

ReadError == "ERROR: Incorrect READ data: Input argument must be a 32 bit integer"

\* Mutants of the test below: one forgets the flag, one the end of the program.
NothingToExecute_NoFlag(inst_idx) == inst_idx = Len(instruction_stack)
NothingToExecute_NoEnd(inst_idx) == finished

\* The test that ends a call before anything is fetched.
NothingToExecute(inst_idx) ==
    inst_idx = Len(instruction_stack) \/ finished

\* Mutant of Advance: the instruction after the one fetched is passed over.
Advance_Twice(inst_idx) == inst_idx + 2

\* Mutant of Advance: the pointer stays on the instruction that was fetched.
Advance_Stay(inst_idx) == inst_idx

\* self.instruction_pointer += 1, before the instruction is executed.
Advance(inst_idx) == inst_idx + 1

\* The machine after a call of execute_next_instruction that reads `line`
\* from standard input if it reads at all.
ExecuteNextInstruction(line) ==
    LET inst_idx == instruction_pointer
        same == [finished |-> finished, ip |-> instruction_pointer,
                 regs |-> registers, out |-> stdout, err |-> stderr,
                 panic |-> "none", ret |-> None, fetched |-> FALSE]
    IN  IF NothingToExecute(inst_idx)
        THEN [same EXCEPT !.finished = TRUE]
        ELSE IF inst_idx < 0 \/ inst_idx >= Len(instruction_stack)
        THEN [same EXCEPT !.panic = "index out of bounds", !.ret = ret]
        ELSE
        LET inst == instruction_stack[inst_idx + 1]
            next == [same EXCEPT !.ip = Advance(inst_idx), !.fetched = TRUE,
                                 !.ret = Some(inst)]
            \* the registers r.regs and the panic r.panic an operation left
            With(m, r) == [m EXCEPT !.regs = r.regs, !.panic = r.panic,
                                    !.ret = IF r.panic = "none" THEN m.ret ELSE ret]
            op == inst.op_code
        IN  CASE op = "LOAD" -> With(next, ExecLoad(registers, inst))
              [] op = "STORE" -> With(next, ExecStore(registers, inst))
              [] op \in {"ADD", "SUB", "MULT", "DIV"} ->
                    With(next, ExecArith(registers, inst))
              [] op = "READ" ->
                    LET data == ParseI32(Trim(line))
                    IN  IF ~data.ok
                        THEN [next EXCEPT !.err = Append(stderr, ReadError),
                                          !.ret = None]
                        ELSE With(next, ExecRead(registers, inst, data.val))
              [] op = "WRITE" ->
                    LET data == GetInstructionData(registers, inst)
                    IN  IF data.panic # "none" THEN With(next, data)
                        ELSE With([next EXCEPT !.out = Println(stdout, data.val)], data)
              [] op = "JUMP" ->
                    LET index == GetInstructionData(registers, inst)
                    IN  IF index.panic # "none" THEN With(next, index)
                        ELSE With([next EXCEPT !.ip = index.val], index)
              [] op \in {"JGTZ", "JZERO"} ->
                    LET j == ExecCondJump(registers, inst)
                    IN  IF j.panic = "none" /\ j.taken
                        THEN With([next EXCEPT !.ip = j.val], j)
                        ELSE With(next, j)
              [] op = "HALT" -> Halt(next)

-----------------------------------------------------------------------------
(* The machine and its caller *)

\* Lines of standard input: integers, a malformed line, and end of input.
InputLines == { <<"1", "\n">>, <<"0", "\n">>, <<"-", "1", "\n">>,
                <<" ", "2", "\n">>, <<"x", "\n">>, <<>> }

\* Instructions of the programs of Spec: every opcode, the jumps in every
\* addressing mode with targets inside and outside the program, and what sets
\* the accumulator they test.
Instrs ==
    { Instruction("READ", "Register", 1),
      Instruction("READ", "ReadReg", 1),
      Instruction("LOAD", "Value", 1),
      Instruction("LOAD", "Value", -1),
      Instruction("LOAD", "Register", 1),
      Instruction("LOAD", "NoValue", 0),
      Instruction("STORE", "Register", 1),
      Instruction("STORE", "Value", 1),
      Instruction("ADD", "Value", 1),
      Instruction("SUB", "Value", 1),
      Instruction("MULT", "Value", 2),
      Instruction("DIV", "Value", 0),
      Instruction("DIV", "Value", 2),
      Instruction("DIV", "Register", 1),
      Instruction("DIV", "ReadReg", 1),
      Instruction("WRITE", "Register", 0),
      Instruction("JUMP", "Value", 0),
      Instruction("JUMP", "Value", 2),
      Instruction("JUMP", "Value", 5),
      Instruction("JUMP", "Value", -1),
      Instruction("JUMP", "Register", 1),
      Instruction("JUMP", "ReadReg", 1),
      Instruction("JGTZ", "Value", 0),
      Instruction("JGTZ", "Value", 5),
      Instruction("JGTZ", "Value", -1),
      Instruction("JGTZ", "Register", 1),
      Instruction("JGTZ", "NoValue", 0),
      Instruction("JZERO", "Value", 0),
      Instruction("JZERO", "Value", 2),
      Instruction("JZERO", "Value", 5),
      Instruction("JZERO", "Register", 1),
      Instruction("JZERO", "ReadReg", 1),
      Instruction("HALT", "NoValue", 0) }

\* All sequences over S of length at most n.
RECURSIVE SeqsUpTo(_, _)
SeqsUpTo(S, n) ==
    IF n = 0 THEN { <<>> }
    ELSE LET shorter == SeqsUpTo(S, n - 1)
         IN  shorter \cup { Append(p, i) : p \in shorter, i \in S }

Programs == SeqsUpTo(Instrs, MaxProg)

\* RAM::new(), Parser::default() and NewParser::default().
Init ==
    /\ build \in {"debug", "release"}
    /\ finished = FALSE
    /\ instruction_stack = <<>>
    /\ instruction_pointer = 0
    /\ registers = <<>>
    /\ stdout = <<>>
    /\ stderr = <<>>
    /\ panic = "none"
    /\ ret = NoCall
    /\ steps = 0
    /\ loaded = FALSE
    /\ cursor = 0
    /\ missing_labels = <<>>
    /\ label_map = [n \in {} |-> 0]
    /\ source = <<>>
    /\ entry = "none"
    /\ result = [kind |-> "NoCall", instructions |-> <<>>, line |-> 0, text |-> <<>>]
    /\ tokens = <<>>

\* load_instructions, called once by the owner of the machine.
LoadInstructions(instructions) ==
    /\ instruction_stack' = instructions
    /\ loaded' = TRUE
    /\ UNCHANGED <<build, panic, finished, instruction_pointer, registers,
                   stdout, stderr, ret, steps, parserVars, tokenVars>>

Load ==
    /\ panic = "none"
    /\ ~loaded
    /\ \E instructions \in Programs : LoadInstructions(instructions)

\* Whether the next call reads a line of standard input.
ReadsInput ==
    /\ ~finished
    /\ instruction_pointer \in 0..(Len(instruction_stack) - 1)
    /\ instruction_stack[instruction_pointer + 1].op_code = "READ"

\* One call of execute_next_instruction.
Step ==
    /\ panic = "none"
    /\ \E line \in (IF ReadsInput THEN InputLines ELSE { <<>> }) :
         \E m \in { ExecuteNextInstruction(line) } :
             /\ m.panic # "alloc"
             /\ m.fetched => steps < MaxSteps
             /\ finished' = m.finished
             /\ instruction_pointer' = m.ip
             /\ registers' = m.regs
             /\ stdout' = m.out
             /\ stderr' = m.err
             /\ panic' = m.panic
             /\ ret' = m.ret
             /\ steps' = IF m.fetched THEN steps + 1 ELSE steps
    /\ UNCHANGED <<build, instruction_stack, loaded, parserVars, tokenVars>>

Next == Load \/ Step

Spec == Init /\ [][Next]_vars

-----------------------------------------------------------------------------
(* The machine on programs without jumps, called again and again *)

\* Every opcode that is no jump, and a division that fails.
JumpFreeInstrs ==
    { Instruction("READ", "Register", 1),
      Instruction("LOAD", "Value", 1),
      Instruction("STORE", "Register", 1),
      Instruction("ADD", "Value", 1),
      Instruction("SUB", "Value", 1),
      Instruction("MULT", "Value", 2),
      Instruction("DIV", "Value", 2),
      Instruction("DIV", "Value", 0),
      Instruction("WRITE", "Register", 0),
      Instruction("HALT", "NoValue", 0) }

JumpFreePrograms == SeqsUpTo(JumpFreeInstrs, MaxProg)

LoadJumpFree ==
    /\ panic = "none"
    /\ ~loaded
    /\ \E instructions \in JumpFreePrograms : LoadInstructions(instructions)

NextJumpFree == LoadJumpFree \/ Step

\* The caller goes on calling execute_next_instruction as long as a call
\* changes anything.
SpecJumpFree == Init /\ [][NextJumpFree]_vars /\ WF_vars(Step)

-----------------------------------------------------------------------------
(* The machine on programs that work on data *)

\* Values at and around the ends of the i32 range.
Edge == { I32Min, -2, -1, 0, 1, 2, 3, 5, 46341, I32Max }

ArithOps == {"ADD", "SUB", "MULT", "DIV"}

\* LOAD =a, then an arithmetic instruction on =d, then WRITE 0.
ArithPrograms ==
    { << Instruction("LOAD", "Value", a), Instruction(op, "Value", d),
         Instruction("WRITE", "Register", 0) >> : a \in Edge, d \in Edge, op \in ArithOps }

\* Instructions that name a register, directly or through another register,
\* by an index that is negative, small, or beyond what has been used.
RegisterInstrs ==
    { Instruction(op, mode, idx) :
        op \in {"LOAD", "STORE", "ADD", "READ", "WRITE", "JUMP"},
        mode \in {"Register", "ReadReg"},
        idx \in {-2, -1, 1, 2, 7} }

\* Register r is set to c and register t to 42, then a register is named.
RegisterPrograms ==
    { << Instruction("LOAD", "Value", c), Instruction("STORE", "Register", r),
         Instruction("LOAD", "Value", 42), Instruction("STORE", "Register", t),
         x >> : c \in {-2, -1, 0, 2, 5}, r \in {1, 2}, t \in {0, 5, 7},
                x \in RegisterInstrs }

\* Instructions whose addressing mode their opcode cannot use.
MismatchInstrs ==
    { Instruction(op, "NoValue", 0) :
        op \in {"LOAD", "ADD", "SUB", "MULT", "DIV", "WRITE", "JUMP",
                "JGTZ", "JZERO", "STORE", "READ"} }
    \cup { Instruction(op, "Value", 3) : op \in {"STORE", "READ"} }

\* One instruction on a new machine, or after LOAD =1.
ShortPrograms ==
    { <<x>> : x \in RegisterInstrs \cup MismatchInstrs }
    \cup { << Instruction("LOAD", "Value", 1), x >> : x \in MismatchInstrs }

\* Programs that write more than once.
OutputPrograms ==
    { << Instruction("WRITE", "Value", v), Instruction("LOAD", "Value", a),
         Instruction("WRITE", "Register", 0), x >> :
        v \in {1, 2}, a \in {0, 1, 5},
        x \in { Instruction("WRITE", "Value", 2), Instruction("ADD", "Value", 1),
                Instruction("JUMP", "Value", 0), Instruction("HALT", "NoValue", 0) } }

DataPrograms ==
    ArithPrograms \cup RegisterPrograms \cup ShortPrograms \cup OutputPrograms

LoadData ==
    /\ panic = "none"
    /\ ~loaded
    /\ \E instructions \in DataPrograms : LoadInstructions(instructions)

NextData == LoadData \/ Step

SpecData == Init /\ [][NextData]_vars

-----------------------------------------------------------------------------
(* The assembler (src/src/parser.rs) *)

\* str::split_whitespace: the maximal runs of non-whitespace characters.
RECURSIVE SplitWhitespace(_)
SplitWhitespace(s) ==
    LET t == TrimStart(s)
        n == IF \E i \in 1..Len(t) : t[i] \in Whitespace
             THEN (CHOOSE i \in 1..Len(t) :
                     /\ t[i] \in Whitespace
                     /\ \A j \in 1..(i - 1) : t[j] \notin Whitespace) - 1
             ELSE Len(t)
    IN  IF t = <<>> THEN <<>>
        ELSE <<SubSeq(t, 1, n)>> \o SplitWhitespace(SubSeq(t, n + 1, Len(t)))

\* str::lines: the text cut at each "\n", a "\r" before it dropped, and no
\* empty last line after a final "\n".
RECURSIVE Lines(_)
Lines(text) ==
    IF text = <<>> THEN <<>>
    ELSE LET n == IF \E i \in 1..Len(text) : text[i] = "\n"
                  THEN CHOOSE i \in 1..Len(text) :
                         /\ text[i] = "\n"
                         /\ \A j \in 1..(i - 1) : text[j] # "\n"
                  ELSE Len(text) + 1
             raw  == SubSeq(text, 1, n - 1)
             line == IF raw # <<>> /\ raw[Len(raw)] = "\r"
                     THEN SubSeq(raw, 1, Len(raw) - 1) ELSE raw
         IN  <<line>> \o Lines(SubSeq(text, n + 1, Len(text)))

\* The mnemonic of each opcode, as parse_instruction_new matches it.
Mnemonic(c) ==
    CASE
         c = "LOAD" -> <<"L", "O", "A", "D">>
      [] c = "STORE" -> <<"S", "T", "O", "R", "E">>
      [] c = "ADD" -> <<"A", "D", "D">>
      [] c = "SUB" -> <<"S", "U", "B">>
      [] c = "MULT" -> <<"M", "U", "L", "T">>
      [] c = "DIV" -> <<"D", "I", "V">>
      [] c = "READ" -> <<"R", "E", "A", "D">>
      [] c = "WRITE" -> <<"W", "R", "I", "T", "E">>
      [] c = "JUMP" -> <<"J", "U", "M", "P">>
      [] c = "JGTZ" -> <<"J", "G", "T", "Z">>
      [] c = "JZERO" -> <<"J", "Z", "E", "R", "O">>
      [] c = "HALT" -> <<"H", "A", "L", "T">>

\* HashMap<String, usize>.
EmptyMap == [n \in {} |-> 0]
\* Mutant of Insert: the key is mapped to the value after the one given.
Insert_Next(map, key, value) ==
    [n \in DOMAIN map \cup {key} |-> IF n = key THEN value + 1 ELSE map[n]]

Insert(map, key, value) ==
    [n \in DOMAIN map \cup {key} |-> IF n = key THEN value ELSE map[n]]

\* A ParsingResult together with the Parser it leaves.
Parsed(p, kind, inst, text) ==
    [parser |-> p, kind |-> kind, inst |-> inst, text |-> text]

NoInst == Instruction("HALT", "NoValue", 0)

\* Mutant of ParseOperand: a label is resolved where it is used, from the
\* labels declared so far.
ParseOperand_OnePass(p, op_code, value) ==
    LET marked  == Head(value) \in {"*", "="}
        op_type == IF Head(value) = "*" THEN "ReadReg"
                   ELSE IF Head(value) = "=" THEN "Value" ELSE "Register"
        value_chars == IF marked THEN Tail(value) ELSE value
        number  == ParseI32(value_chars)
    IN  Parsed([p EXCEPT !.cursor = p.cursor + 1], "Instruction",
               IF number.ok THEN Instruction(op_code, op_type, number.val)
               ELSE IF value \in DOMAIN p.label_map
               THEN Instruction(op_code, "Value", p.label_map[value])
               ELSE Instruction(op_code, "Value", -1),
               <<>>)

\* The operand of an instruction: its marker, its literal or its label.
ParseOperand(p, op_code, value) ==
    LET marked  == Head(value) \in {"*", "="}
        op_type == IF Head(value) = "*" THEN "ReadReg"
                   ELSE IF Head(value) = "=" THEN "Value" ELSE "Register"
        value_chars == IF marked THEN Tail(value) ELSE value
        number  == ParseI32(value_chars)
    IN  IF number.ok
        THEN Parsed([p EXCEPT !.cursor = p.cursor + 1], "Instruction",
                    Instruction(op_code, op_type, number.val), <<>>)
        ELSE Parsed([p EXCEPT !.cursor = p.cursor + 1,
                              !.missing_labels =
                                  Append(p.missing_labels, <<value, p.cursor>>)],
                    "Instruction", Instruction(op_code, "Value", -1), <<>>)

\* Mutant of ParseOpcode: only HALT may stand without an operand.
ParseOpcode_HaltOnly(p, opcode_string, rest) ==
    IF \A c \in OpCodes : Mnemonic(c) # opcode_string
    THEN Parsed(p, "InvalidInstructionError", NoInst, opcode_string)
    ELSE LET op_code == CHOOSE c \in OpCodes : Mnemonic(c) = opcode_string
         IN  IF rest # <<>> /\ Head(Head(rest)) # ";"
             THEN ParseOperand(p, op_code, Head(rest))
             ELSE IF op_code # "HALT"
             THEN Parsed(p, "InvalidInstructionError", NoInst, opcode_string)
             ELSE Parsed([p EXCEPT !.cursor = p.cursor + 1], "Instruction",
                         Instruction(op_code, "NoValue", 0), <<>>)

\* The mnemonic opcode_string and what follows it on the line.
ParseOpcode(p, opcode_string, rest) ==
    IF \A c \in OpCodes : Mnemonic(c) # opcode_string
    THEN Parsed(p, "InvalidInstructionError", NoInst, opcode_string)
    ELSE LET op_code == CHOOSE c \in OpCodes : Mnemonic(c) = opcode_string
         IN  IF rest # <<>> /\ Head(Head(rest)) # ";"
             THEN ParseOperand(p, op_code, Head(rest))
             ELSE Parsed([p EXCEPT !.cursor = p.cursor + 1], "Instruction",
                         Instruction(op_code, "NoValue", 0), <<>>)

\* Mutant of ParseLabels: a label declared again replaces the earlier one.
RECURSIVE ParseLabels_Overwrite(_, _, _)
ParseLabels_Overwrite(p, opcode_string, rest) ==
    IF opcode_string[Len(opcode_string)] # ":"
    THEN ParseOpcode(p, opcode_string, rest)
    ELSE LET name == SubSeq(opcode_string, 1, Len(opcode_string) - 1)
         IN  IF name = <<>> THEN Parsed(p, "EmptyLabelError", NoInst, <<>>)
             ELSE LET q == [p EXCEPT !.label_map = Insert(p.label_map, name, p.cursor)]
                  IN  IF rest = <<>> THEN Parsed(q, "JumpLabel", NoInst, <<>>)
                      ELSE ParseLabels_Overwrite(q, Head(rest), Tail(rest))

\* The loop over the words that end with ':', then the opcode.
RECURSIVE ParseLabels(_, _, _)
ParseLabels(p, opcode_string, rest) ==
    IF opcode_string[Len(opcode_string)] # ":"
    THEN ParseOpcode(p, opcode_string, rest)
    ELSE LET name == SubSeq(opcode_string, 1, Len(opcode_string) - 1)
         IN  IF name = <<>> THEN Parsed(p, "EmptyLabelError", NoInst, <<>>)
             ELSE IF name \in DOMAIN p.label_map
             THEN Parsed(p, "ReapeatingLabelError", NoInst, name)
             ELSE LET q == [p EXCEPT !.label_map = Insert(p.label_map, name, p.cursor)]
                  IN  IF rest = <<>> THEN Parsed(q, "JumpLabel", NoInst, <<>>)
                      ELSE ParseLabels(q, Head(rest), Tail(rest))

\* parse_instruction_new on the Parser p.
ParseInstructionNew(p, line) ==
    LET data == SplitWhitespace(line)
    IN  IF data = <<>> THEN Parsed(p, "EmptyLine", NoInst, <<>>)
        ELSE IF Head(Head(data)) = ";" THEN Parsed(p, "Comment", NoInst, <<>>)
        ELSE ParseLabels(p, Head(data), Tail(data))

\* What parse_source_new returns: Ok(instructions), or the Err whose message
\* is of the given kind, names `text` and holds the line number `line`
\* (0: the message holds no line number).
NotParsed == [kind |-> "NoCall", instructions |-> <<>>, line |-> 0, text |-> <<>>]
ParseOk2(instructions) ==
    [kind |-> "Ok", instructions |-> instructions, line |-> 0, text |-> <<>>]
ParseError(kind, line, text) ==
    [kind |-> kind, instructions |-> <<>>, line |-> line, text |-> text]

LineErrors == {"InvalidInstructionError", "ReapeatingLabelError", "EmptyLabelError"}

\* Mutant of ParseLinesNew: each instruction is put in front of the others.
RECURSIVE ParseLinesNew_Prepend(_, _, _, _)
ParseLinesNew_Prepend(p, lines, temp, instruction_stack_) ==
    IF lines = <<>>
    THEN [parser |-> p, result |-> ParseOk2(instruction_stack_)]
    ELSE LET r == ParseInstructionNew(p, Head(lines))
         IN  IF r.kind \in LineErrors
             THEN [parser |-> r.parser, result |-> ParseError(r.kind, temp, r.text)]
             ELSE ParseLinesNew_Prepend(r.parser, Tail(lines), temp + 1,
                                IF r.kind = "Instruction"
                                THEN <<r.inst>> \o instruction_stack_
                                ELSE instruction_stack_)

\* The loop of parse_source_new over the lines: the Parser it leaves, and
\* the instruction_stack or the first line error.
RECURSIVE ParseLinesNew(_, _, _, _)
ParseLinesNew(p, lines, temp, instruction_stack_) ==
    IF lines = <<>>
    THEN [parser |-> p, result |-> ParseOk2(instruction_stack_)]
    ELSE LET r == ParseInstructionNew(p, Head(lines))
         IN  IF r.kind \in LineErrors
             THEN [parser |-> r.parser, result |-> ParseError(r.kind, temp, r.text)]
             ELSE ParseLinesNew(r.parser, Tail(lines), temp + 1,
                                IF r.kind = "Instruction"
                                THEN Append(instruction_stack_, r.inst)
                                ELSE instruction_stack_)

\* Mutant of FillLabels: the operand is the index after the one the label
\* denotes.
RECURSIVE FillLabels_Next(_, _, _, _)
FillLabels_Next(labels, map, instruction_stack_, strict) ==
    IF labels = <<>> THEN ParseOk2(instruction_stack_)
    ELSE LET name  == Head(labels)[1]
             index == Head(labels)[2]
         IN  IF name \notin DOMAIN map
             THEN ParseError(IF strict THEN "Panic" ELSE "LabelNotFound", 0, name)
             ELSE IF index >= Len(instruction_stack_)
             THEN ParseError("Panic", 0, <<>>)
             ELSE FillLabels_Next(Tail(labels), map,
                             [instruction_stack_ EXCEPT ![index + 1].op_value = map[name] + 1],
                             strict)

\* Mutant of FillLabels: a label that is not in the map is passed over.
RECURSIVE FillLabels_Skip(_, _, _, _)
FillLabels_Skip(labels, map, instruction_stack_, strict) ==
    IF labels = <<>> THEN ParseOk2(instruction_stack_)
    ELSE LET name  == Head(labels)[1]
             index == Head(labels)[2]
         IN  IF name \notin DOMAIN map \/ index >= Len(instruction_stack_)
             THEN FillLabels_Skip(Tail(labels), map, instruction_stack_, strict)
             ELSE FillLabels_Skip(Tail(labels), map,
                             [instruction_stack_ EXCEPT ![index + 1].op_value = map[name]],
                             strict)

\* Filling the missing jump values: every entry of missing_labels, in order.
\* `strict` is the indexing label_map[&name] of parse_source, which panics
\* where parse_source_new returns the error.
RECURSIVE FillLabels(_, _, _, _)
FillLabels(labels, map, instruction_stack_, strict) ==
    IF labels = <<>> THEN ParseOk2(instruction_stack_)
    ELSE LET name  == Head(labels)[1]
             index == Head(labels)[2]
         IN  IF name \notin DOMAIN map
             THEN ParseError(IF strict THEN "Panic" ELSE "LabelNotFound", 0, name)
             ELSE IF index >= Len(instruction_stack_)
             THEN ParseError("Panic", 0, <<>>)
             ELSE FillLabels(Tail(labels), map,
                             [instruction_stack_ EXCEPT ![index + 1].op_value = map[name]],
                             strict)

\* parse_source_new: [parser, result].
ParseSourceNewOn(p, text) ==
    LET scanned == ParseLinesNew(p, Lines(text), 1, <<>>)
    IN  IF scanned.result.kind # "Ok" THEN scanned
        ELSE [parser |-> scanned.parser,
              result |-> FillLabels(scanned.parser.missing_labels,
                                    scanned.parser.label_map,
                                    scanned.result.instructions, FALSE)]

\* parse_source: parse_instruction is parse_instruction_new with a panic for
\* each of its three errors.
ParseSourceOn(p, text) ==
    LET scanned == ParseLinesNew(p, Lines(text), 1, <<>>)
    IN  IF scanned.result.kind # "Ok"
        THEN [parser |-> scanned.parser, result |-> ParseError("Panic", 0, <<>>)]
        ELSE [parser |-> scanned.parser,
              result |-> FillLabels(scanned.parser.missing_labels,
                                    scanned.parser.label_map,
                                    scanned.result.instructions, TRUE)]

-----------------------------------------------------------------------------
(* The assembler and its caller *)

\* Longest source, in lines.
MaxLines == 3

\* The lines sources are made of.
SourceLines ==
    {
      <<>>,
      <<";", " ", "c">>,
      <<"a", ":">>,
      <<"a", ":", " ", "b", ":">>,
      <<"b", ":", " ", "S", "T", "O", "R", "E", " ", "3">>,
      <<"J", "U", "M", "P", " ", "a">>,
      <<"J", "U", "M", "P", " ", "c">>,
      <<"L", "O", "A", "D", " ", "=", "1">>,
      <<"A", "D", "D", " ", "*", "2">>,
      <<"F", "O", "O">>,
      <<":">>,
      <<"a", ":", " ", ";", "c">>,
      <<"J", "U", "M", "P", " ", "=", "a">>,
      <<"H", "A", "L", "T", " ", ";", "c">>,
      <<"a", ":", " ", "a", ":", " ", "H", "A", "L", "T">>,
      <<"=", "a", ":">> }

\* The text of the lines ls, each ended by "\n".
RECURSIVE JoinLines(_)
JoinLines(ls) ==
    IF ls = <<>> THEN <<>> ELSE Head(ls) \o <<"\n">> \o JoinLines(Tail(ls))

Sources == { JoinLines(ls) : ls \in SeqsUpTo(SourceLines, MaxLines) }

TheParser == [cursor |-> cursor, missing_labels |-> missing_labels,
              label_map |-> label_map]

Assemble(r, text, fn) ==
    /\ entry' = fn
    /\ cursor' = r.parser.cursor
    /\ missing_labels' = r.parser.missing_labels
    /\ label_map' = r.parser.label_map
    /\ source' = text
    /\ result' = r.result
    /\ panic' = IF r.result.kind = "Panic" THEN "parser" ELSE "none"
    /\ UNCHANGED <<build, ramVars, tokenVars>>

\* parse_source_new on a new Parser.
ParseSourceNew ==
    /\ panic = "none"
    /\ result = NotParsed
    /\ \E text \in Sources :
         \E r \in { ParseSourceNewOn(TheParser, text) } :
             Assemble(r, text, "parse_source_new")

\* parse_source on a new Parser.
ParseSource ==
    /\ panic = "none"
    /\ result = NotParsed
    /\ \E text \in Sources :
         \E r \in { ParseSourceOn(TheParser, text) } :
             Assemble(r, text, "parse_source")

NextParser == ParseSourceNew \/ ParseSource

\* The assembler computes nothing that depends on the build.
InitParser == Init /\ build = "debug"

SpecParser == InitParser /\ [][NextParser]_vars

\* Largest cursor at which the model calls a used Parser again.
MaxCursor == 3

\* parse_source_new once more on the Parser that assembled `source`, with the
\* same text: cursor, missing_labels and label_map are what that call left.
ParseSourceNewAgain ==
    /\ panic = "none"
    /\ entry = "parse_source_new"
    /\ cursor <= MaxCursor
    /\ \E r \in { ParseSourceNewOn(TheParser, source) } :
         Assemble(r, source, "parse_source_new")

NextReuse == ParseSourceNew \/ ParseSourceNewAgain

SpecReuse == InitParser /\ [][NextReuse]_vars

-----------------------------------------------------------------------------
(* The assembler, line by line *)

\* What lines are made of: label declarations, then a mnemonic or a word
\* that is none or nothing, then an operand, a comment or nothing.
LabelPrefixes == { <<>>, <<"a", ":", " ">>, <<"a", ":", " ", "b", ":", " ">> }
MnemonicTexts == { Mnemonic(c) : c \in OpCodes } \cup { <<>>, <<"F", "O", "O">> }
OperandSuffixes ==
    { <<>>, <<" ", "1">>, <<" ", "=", "a">>, <<" ", ";", "c">> }
LineTexts ==
    { l \o m \o o : l \in LabelPrefixes, m \in MnemonicTexts, o \in OperandSuffixes }

\* What parse_instruction_new returned, in the shape of `result`.
LineResult(r) ==
    [kind |-> r.kind,
     instructions |-> IF r.kind = "Instruction" THEN <<r.inst>> ELSE <<>>,
     line |-> 0, text |-> r.text]

\* One turn of the loop of parse_source_new: parse_instruction_new on the
\* next line, until a line is in error.
ParseNextLine ==
    /\ panic = "none"
    /\ entry \in {"none", "parse_instruction_new"}
    /\ result.kind \notin LineErrors
    /\ cursor < MaxCursor
    /\ \E line \in LineTexts :
         \E r \in { ParseInstructionNew(TheParser, line) } :
             /\ entry' = "parse_instruction_new"
             /\ cursor' = r.parser.cursor
             /\ missing_labels' = r.parser.missing_labels
             /\ label_map' = r.parser.label_map
             /\ source' = line
             /\ result' = LineResult(r)
    /\ UNCHANGED <<build, panic, ramVars, tokenVars>>

NextLines == ParseNextLine

SpecLines == InitParser /\ [][NextLines]_vars

-----------------------------------------------------------------------------
(* The driver: a source is assembled, loaded and run (src/src/main.rs) *)

\* ram.load_instructions(instructions), with what the assembler returned.
LoadAssembled ==
    /\ panic = "none"
    /\ ~loaded
    /\ entry # "none" /\ result.kind = "Ok"
    /\ LoadInstructions(result.instructions)

\* while let Some(inst) = ram.execute_next_instruction().
Run ==
    /\ loaded
    /\ ret.kind # "None"
    /\ Step

NextDriver == ParseSourceNew \/ ParseSource \/ LoadAssembled \/ Run

SpecDriver == Init /\ [][NextDriver]_vars

-----------------------------------------------------------------------------
(* The tokenizer (src/src/new_parser.rs) *)

\* enum Token: Label(String), InstrName(String), InstrType(char),
\* InstrValue(String), Comment(String), NewLine.
Token(type, text) == [type |-> type, text |-> text]
NewLine == Token("NewLine", <<>>)

\* tokenize_word: the tokens and found_opcode it leaves.
TokenizeWord(t, word) ==
    IF word = <<>> THEN t
    ELSE IF word[Len(word)] = ":"
    THEN [t EXCEPT !.tokens =
              Append(@, Token("Label", SubSeq(word, 1, Len(word) - 1)))]
    ELSE IF ~t.found_opcode
    THEN [t EXCEPT !.found_opcode = TRUE,
                   !.tokens = Append(@, Token("InstrName", word))]
    ELSE [t EXCEPT !.tokens = Append(@, Token("InstrValue", word))]

\* One turn of the loop of parse_line on the character c, the characters
\* `rest` following it: what it leaves of tokens, word and found_opcode,
\* and whether it breaks out of the loop.
ScanChar(t, c, rest) ==
    IF c = ";"
    THEN [t EXCEPT !.tokens = Append(@, Token("Comment", rest)), !.break = TRUE]
    ELSE IF c \in {"=", "*"} /\ t.word = <<>>
    THEN [t EXCEPT !.tokens = Append(@, Token("InstrType", <<c>>))]
    ELSE IF c \in Whitespace
    THEN [TokenizeWord(t, t.word) EXCEPT !.word = <<>>]
    ELSE [t EXCEPT !.word = Append(@, c)]

\* The loop of parse_line over chars, and the tokenize_word after it.
RECURSIVE ScanChars(_, _)
ScanChars(t, chars) ==
    IF chars = <<>> \/ t.break THEN TokenizeWord(t, t.word).tokens
    ELSE CHOOSE r \in { ScanChars(n, Tail(chars)) :
                           n \in { ScanChar(t, Head(chars), Tail(chars)) } } : TRUE

\* parse_line: the tokens after the line.
ParseLine(tokens_, line) ==
    ScanChars([tokens |-> tokens_, word |-> <<>>, found_opcode |-> FALSE,
               break |-> FALSE], line)

\* The loop of parse_source over the lines.
RECURSIVE ParseLines(_, _)
ParseLines(tokens_, lines) ==
    IF lines = <<>> THEN tokens_
    ELSE CHOOSE r \in { ParseLines(n, Tail(lines)) :
                           n \in { Append(ParseLine(tokens_, Head(lines)), NewLine) } } : TRUE

-----------------------------------------------------------------------------
(* The tokenizer and its caller *)

\* The lines the tokenizer is given.
TokenLines ==
    { <<>>,
      <<"H", "A", "L", "T">>,
      <<"H", "A", "L", "T", ";", "x">>,
      <<"a", ":", " ", "L", "O", "A", "D", " ", "=", "1", " ", ";", " ", "c">>,
      <<";", " ", "c", " ", ";", "d">>,
      <<"A", "D", "D", " ", "*", "2", " ", ";">>,
      <<"a", ":", ";", "c">>,
      <<"J", "U", "M", "P", " ", "a">> }

TokenSources == { JoinLines(ls) : ls \in SeqsUpTo(TokenLines, MaxLines) }

\* parse_line, called on one line.
NewParserParseLine ==
    /\ panic = "none"
    /\ Len(tokens) < MaxLines
    /\ \E line \in TokenLines :
         /\ tokens' = ParseLine(tokens, line)
         /\ source' = line
         /\ entry' = "parse_line"
    /\ UNCHANGED <<build, panic, ramVars, cursor, missing_labels, label_map, result>>

\* parse_source, called on a new NewParser.
NewParserParseSource ==
    /\ panic = "none"
    /\ entry = "none"
    /\ \E text \in TokenSources :
         /\ tokens' = ParseLines(tokens, Lines(text))
         /\ source' = text
         /\ entry' = "parse_source"
    /\ UNCHANGED <<build, panic, ramVars, cursor, missing_labels, label_map, result>>

NextTokens == NewParserParseLine \/ NewParserParseSource

InitNewParser == Init /\ build = "debug"

SpecTokens == InitNewParser /\ [][NextTokens]_vars

-----------------------------------------------------------------------------
(* Properties of the machine, checked under Spec *)

\* The instruction the next call fetches, when it fetches one.
Fetches ==
    /\ panic = "none"
    /\ ~finished
    /\ instruction_pointer \in 0..(Len(instruction_stack) - 1)
Cur == instruction_stack[instruction_pointer + 1]

\* The value the specification gives an operand: the literal, the content of
\* the register, the content of the register the register names.
Decodable(inst) ==
    CASE inst.op_type = "Value" -> TRUE
      [] inst.op_type = "Register" -> inst.op_value >= 0
      [] inst.op_type = "ReadReg" ->
            inst.op_value >= 0 /\ Reg(registers, inst.op_value) >= 0
      [] OTHER -> FALSE
Decoded(inst) ==
    CASE inst.op_type = "Value" -> inst.op_value
      [] inst.op_type = "Register" -> Reg(registers, inst.op_value)
      [] inst.op_type = "ReadReg" -> Reg(registers, Reg(registers, inst.op_value))

\* No register has changed its value (the vector may have grown by zeros).
SameRegisterValues ==
    \A i \in 0..(Len(registers) + Len(registers')) :
        Reg(registers', i) = Reg(registers, i)

\* The next call executes a READ whose input line is malformed.
MalformedRead == Fetches /\ Cur.op_code = "READ" /\ stderr' # stderr

\* C1: a READ whose input line is no integer aborts the step and leaves the
\* machine Halted with every register unchanged, and no later call executes
\* an instruction or returns one.
C1_MalformedReadHalts ==
    [][ /\ MalformedRead => (finished' /\ ret' = None /\ SameRegisterValues)
        /\ stderr # <<>> => (steps' = steps /\ ret' \in {ret, None}) ]_vars

\* What of C1 the code does: the step returns nothing and changes no register.
C1_MalformedReadChangesNothing ==
    [][ MalformedRead => (ret' = None /\ SameRegisterValues /\ panic' = "none") ]_vars

\* C2: Halted is terminal. The flag never returns to false, and a call on a
\* halted machine returns nothing and leaves the pointer, the registers and
\* the flag as they are.
C2_HaltedIsTerminal ==
    [][ finished =>
          /\ finished'
          /\ instruction_pointer' = instruction_pointer
          /\ registers' = registers
          /\ stdout' = stdout /\ stderr' = stderr /\ steps' = steps
          /\ panic' = "none"
          /\ Step => ret' = None ]_vars

\* A machine halted by HALT before the end of its program, called again.
C2_Witness ==
    /\ finished /\ ret = None /\ steps > 0
    /\ instruction_pointer >= 1
    /\ instruction_pointer < Len(instruction_stack)
    /\ instruction_stack[instruction_pointer].op_code = "HALT"

\* C3: when the pointer equals the length of the program, a call returns
\* nothing, halts the machine without an error and changes no register; so
\* does every call after it, and so does the first call on the empty program.
C3_RunOffEndHalts ==
    [][ (Step /\ instruction_pointer = Len(instruction_stack)) =>
          /\ ret' = None
          /\ finished'
          /\ panic' = "none" /\ stderr' = stderr /\ stdout' = stdout
          /\ registers' = registers
          /\ instruction_pointer' = instruction_pointer
          /\ steps' = steps ]_vars

\* A program without HALT that ran to its end and was then called again.
C3_Witness ==
    /\ finished /\ ret = None /\ panic = "none"
    /\ Len(instruction_stack) = MaxProg
    /\ steps = MaxProg
    /\ instruction_pointer = Len(instruction_stack)
    /\ \A i \in 1..Len(instruction_stack) : instruction_stack[i].op_code # "HALT"

\* C13: executing HALT returns the instruction, halts the machine and changes
\* no register. On the program that is HALT alone this is the first call,
\* it leaves every register zero, and every later call returns nothing.
C13_HaltOnly ==
    [][ /\ (Step /\ Fetches /\ Cur.op_code = "HALT") =>
              /\ ret' = Some(Cur) /\ finished' /\ panic' = "none"
              /\ registers' = registers
              /\ stdout' = stdout /\ stderr' = stderr
        /\ (Step /\ instruction_stack = <<Instruction("HALT", "NoValue", 0)>>) =>
              /\ finished' /\ panic' = "none"
              /\ \A i \in 0..MaxReg : Reg(registers', i) = 0
              /\ ret' = IF steps = 0 THEN Some(Cur) ELSE None
              /\ steps' = 1 ]_vars

\* The program HALT, called twice.
C13_Witness ==
    /\ instruction_stack = <<Instruction("HALT", "NoValue", 0)>>
    /\ finished /\ ret = None /\ steps = 1 /\ registers = <<>>
    /\ instruction_pointer = 1

\* The jump the next call executes is one whose predicate holds.
CondJump == Fetches /\ Cur.op_code \in {"JGTZ", "JZERO"}
PredicateHolds ==
    IF Cur.op_code = "JGTZ" THEN Reg(registers, ADDER) > 0
    ELSE Reg(registers, ADDER) = 0

OutOfRangeJump ==
    /\ Fetches
    /\ Cur.op_code \in {"JUMP", "JGTZ", "JZERO"}
    /\ Cur.op_code = "JUMP" \/ PredicateHolds
    /\ Decodable(Cur)
    /\ Decoded(Cur) \notin 0..Len(instruction_stack)

\* C9: a taken jump to a target outside [0, instruction_count] is reported
\* and leaves the machine Halted, and the pointer is always within
\* [0, instruction_count].
C9_JumpStaysInRange ==
    [][ /\ instruction_pointer' \in 0..Len(instruction_stack')
        /\ OutOfRangeJump => finished' ]_vars

\* The next call executes a JUMP, or a JGTZ or JZERO whose predicate holds.
TakenJump ==
    /\ Fetches
    /\ Cur.op_code = "JUMP" \/ (CondJump /\ PredicateHolds)

DivByZero ==
    Fetches /\ Cur.op_code = "DIV" /\ Decodable(Cur) /\ Decoded(Cur) = 0

\* C10: DIV by zero is a reported error that leaves every register as it was
\* and the machine Halted.
C10_DivByZeroHalts ==
    [][ (Step /\ DivByZero) =>
          (finished' /\ panic' = "none" /\ SameRegisterValues) ]_vars

-----------------------------------------------------------------------------
(* Properties of programs without jumps, checked under SpecJumpFree *)

\* C29: a program of n instructions without JUMP, JGTZ and JZERO that raises
\* no runtime error halts. The calls return an instruction at most n times,
\* each executed instruction moves the pointer up by one, and the call after
\* the last instruction or after HALT returns nothing (and so does every
\* call after it).
C29_JumpFreeProgramHalts ==
    /\ <>(finished \/ panic # "none")
    /\ [](steps <= Len(instruction_stack) /\ instruction_pointer = steps)
    /\ [][ /\ (Step /\ Fetches /\ panic' = "none") =>
               /\ instruction_pointer' = instruction_pointer + 1
               /\ steps' = steps + 1
          /\ (Step /\ panic = "none" /\
                 (finished \/ instruction_pointer = Len(instruction_stack))) =>
               /\ ret' = None /\ finished' /\ panic' = "none"
               /\ steps' = steps /\ instruction_pointer' = instruction_pointer ]_vars

\* LOAD =1 and ADD =1 have been executed, and the third call has returned
\* nothing.
C29_Witness ==
    /\ instruction_stack = << Instruction("LOAD", "Value", 1),
                              Instruction("ADD", "Value", 1) >>
    /\ steps = 2 /\ instruction_pointer = 2
    /\ finished /\ ret = None /\ panic = "none"

-----------------------------------------------------------------------------
(* Properties of the machine on data, checked under SpecData *)

\* The addressing mode of inst is one its opcode cannot use.
Mismatch(inst) ==
    \/ /\ inst.op_code \in {"LOAD", "ADD", "SUB", "MULT", "DIV", "WRITE", "JUMP"}
       /\ inst.op_type = "NoValue"
    \/ /\ inst.op_code \in {"STORE", "READ"}
       /\ inst.op_type \in {"Value", "NoValue"}
MismatchPanic(inst) ==
    CASE inst.op_code = "STORE" -> "Instruction STORE requires a register"
      [] inst.op_code = "READ" -> "Instruction READ requires a register"
      [] OTHER -> "Instruction requires an argument"

Arithmetic ==
    /\ Fetches /\ Cur.op_code \in ArithOps /\ Decodable(Cur)
    /\ Cur.op_code = "DIV" => Decoded(Cur) # 0

\* The mathematical result of a (op) d reduced modulo 2^32 into the i32 range.
Reduced(op, a, d) ==
    CASE op = "ADD" -> WrapAdd(a, d)
      [] op = "SUB" -> WrapSub(a, d)
      [] op = "MULT" -> WrapMul(a, d)
      [] op = "DIV" -> IF a = I32Min /\ d = -1 THEN I32Min ELSE TruncDiv(a, d)

\* C12: ADD, SUB, MULT and DIV leave in the accumulator the mathematical
\* result reduced modulo 2^32 into [-2^31, 2^31 - 1], and an overflow is
\* never an error.
C12_ArithmeticWraps ==
    [][ (Step /\ Arithmetic) =>
          /\ panic' = "none"
          /\ Reg(registers', ADDER)
                = Reduced(Cur.op_code, Reg(registers, ADDER), Decoded(Cur)) ]_vars

\* What of C12 the code does: without overflow checks ADD, SUB and MULT
\* wrap, and DIV truncates toward zero unless it divides -2^31 by -1.
C12_WrapsWithoutOverflowChecks ==
    [][ (Step /\ Arithmetic /\ build = "release"
              /\ ~(Cur.op_code = "DIV" /\ Reg(registers, ADDER) = I32Min
                                       /\ Decoded(Cur) = -1)) =>
          /\ panic' = "none"
          /\ Reg(registers', ADDER)
                = Reduced(Cur.op_code, Reg(registers, ADDER), Decoded(Cur)) ]_vars

\* The program is LOAD =a, ADD =b, WRITE 0 with a + b in the i32 range.
SumProgram ==
    /\ Len(instruction_stack) = 3
    /\ instruction_stack[1].op_code = "LOAD" /\ instruction_stack[1].op_type = "Value"
    /\ instruction_stack[2].op_code = "ADD" /\ instruction_stack[2].op_type = "Value"
    /\ instruction_stack[3] = Instruction("WRITE", "Register", 0)
    /\ ~AddOverflows(instruction_stack[1].op_value, instruction_stack[2].op_value)
Sum == instruction_stack[1].op_value + instruction_stack[2].op_value

IndirectDecode ==
    /\ Fetches /\ Cur.op_type = "ReadReg"
    /\ Cur.op_code \in {"LOAD", "WRITE", "JUMP"}
    /\ Cur.op_value >= 0 /\ Reg(registers, Cur.op_value) >= 0
Twice == Reg(registers, Reg(registers, Cur.op_value))

\* C15: an operand r in Indirect mode decodes to the content of the register
\* whose index is the content of register r, and decoding changes no
\* register value: WRITE writes that value, JUMP jumps to it, and LOAD puts
\* it in register 0 and changes no other register.
C15_IndirectIsDoubleDereference ==
    [][ (Step /\ IndirectDecode) =>
          /\ panic' = "none"
          /\ Cur.op_code = "WRITE" =>
                (stdout' = Append(stdout, Twice) /\ SameRegisterValues)
          /\ Cur.op_code = "JUMP" =>
                (instruction_pointer' = Twice /\ SameRegisterValues)
          /\ Cur.op_code = "LOAD" =>
                /\ Reg(registers', ADDER) = Twice
                /\ \A i \in 1..MaxReg : Reg(registers', i) = Reg(registers, i) ]_vars

\* Register 2 = 5 and register 5 = 42: WRITE *2 has written 42.
C15_Witness ==
    /\ ret = Some(Instruction("WRITE", "ReadReg", 2))
    /\ Reg(registers, 2) = 5 /\ Reg(registers, 5) = 42
    /\ stdout = <<42>> /\ panic = "none"

\* The register the instruction the next call executes writes; -1: none.
WrittenRegister ==
    CASE Cur.op_code \in {"LOAD"} \cup ArithOps -> ADDER
      [] Cur.op_code \in {"STORE", "READ"} /\ Cur.op_type = "Register" -> Cur.op_value
      [] Cur.op_code \in {"STORE", "READ"} /\ Cur.op_type = "ReadReg"
            /\ Cur.op_value >= 0 -> Reg(registers, Cur.op_value)
      [] OTHER -> -1

\* C16: the register file is a map that is zero wherever no instruction has
\* written. Every register of a new machine reads 0; a call that returns
\* changes the value of no register but the one its instruction writes,
\* whatever the vector grows by; and LOAD i reads the value of register i,
\* which is 0 when i is beyond the vector.
C16_ZeroInitialisedMap ==
    /\ \A i \in 0..(MaxReg + 1) : Reg(registers, i) = 0
    /\ [][ (Step /\ panic' = "none") =>
             /\ Len(registers') >= Len(registers)
             /\ \A i \in 0..(MaxReg + 1) :
                  (Fetches => i # WrittenRegister) =>
                      Reg(registers', i) = Reg(registers, i)
             /\ (Fetches /\ Cur.op_code = "LOAD" /\ Cur.op_type = "Register"
                         /\ Cur.op_value >= 0) =>
                  /\ Reg(registers', ADDER) = Reg(registers, Cur.op_value)
                  /\ Cur.op_value >= Len(registers) => Reg(registers', ADDER) = 0 ]_vars

\* LOAD 7 has read 0 from beyond a vector of six registers, and the 42
\* written to register 5 before is still there.
C16_Witness ==
    /\ ret = Some(Instruction("LOAD", "Register", 7))
    /\ steps = 5 /\ panic = "none"
    /\ Len(registers) = 8
    /\ Reg(registers, ADDER) = 0 /\ Reg(registers, 5) = 42 /\ Reg(registers, 7) = 0

\* C17: the output is, in order, the decoded operands of the WRITE
\* instructions executed: a WRITE that returns adds its decoded operand at
\* the end, and nothing else changes the output.
C17_OutputInExecutionOrder ==
    [][ IF Step /\ Fetches /\ Cur.op_code = "WRITE" /\ panic' = "none"
        THEN Decodable(Cur) /\ stdout' = Append(stdout, Decoded(Cur))
        ELSE stdout' = stdout ]_vars

\* WRITE =1, LOAD =5, WRITE 0, WRITE =2 has written 1, 5, 2.
C17_Witness ==
    /\ stdout = <<1, 5, 2>>
    /\ steps = 4 /\ Len(instruction_stack) = 4
    /\ ret = Some(Instruction("WRITE", "Value", 2))

\* The next call executes an instruction that always accesses the register
\* its operand names.
RegisterAccess ==
    /\ Fetches
    /\ Cur.op_code \in {"LOAD", "STORE", "WRITE", "JUMP"} \cup ArithOps
    /\ Cur.op_type \in {"Register", "ReadReg"}
\* An index of that access is negative: the operand, or in Indirect mode the
\* content of the register the operand names.
NegativeIndex ==
    \/ Cur.op_value < 0
    \/ Cur.op_type = "ReadReg" /\ Reg(registers, Cur.op_value) < 0

\* C20: an access by a negative register index is reported as an error, the
\* call returning with every register and the output as they were; it
\* neither crashes nor touches another register.
C20_NegativeIndexReported ==
    [][ (Step /\ RegisterAccess /\ NegativeIndex) =>
          (panic' = "none" /\ SameRegisterValues /\ stdout' = stdout) ]_vars

\* What of C20 the code does: LOAD, STORE, WRITE and JUMP on indices >= 0
\* that the model follows never fail.
C20_NonNegativeIndexNeverFails ==
    [][ (Step /\ RegisterAccess /\ ~NegativeIndex /\ Cur.op_code \notin ArithOps) =>
          panic' = "none" ]_vars

\* The next call executes a STORE that names a register.
Store ==
    /\ Fetches
    /\ Cur.op_code = "STORE"
    /\ Cur.op_type \in {"Register", "ReadReg"}

-----------------------------------------------------------------------------
(* Properties of the assembler, checked under SpecParser *)

\* The source as the grammar reads it: the words of each line. In what
\* follows w is this sequence and k a line number.
SrcWords == LET ls == Lines(source) IN [k \in 1..Len(ls) |-> SplitWhitespace(ls[k])]
LineNos(w) == 1..Len(w)
IsComment(w, k) == w[k] # <<>> /\ Head(Head(w[k])) = ";"
EndsWithColon(word) == word[Len(word)] = ":"

\* The label declarations in front of line k.
LabelCount(w, k) ==
    IF IsComment(w, k) THEN 0
    ELSE Cardinality({ n \in 1..Len(w[k]) :
                         \A i \in 1..n : EndsWithColon(w[k][i]) })
LabelAt(w, k, i) == SubSeq(w[k][i], 1, Len(w[k][i]) - 1)

\* Not empty, not comment-only and not label-only.
HasMnemonic(w, k) == ~IsComment(w, k) /\ LabelCount(w, k) < Len(w[k])
MnemonicWord(w, k) == w[k][LabelCount(w, k) + 1]
HasOperand(w, k) ==
    /\ HasMnemonic(w, k)
    /\ LabelCount(w, k) + 1 < Len(w[k])
    /\ Head(w[k][LabelCount(w, k) + 2]) # ";"
OperandWord(w, k) == w[k][LabelCount(w, k) + 2]
StripMarker(word) ==
    IF word # <<>> /\ Head(word) \in {"=", "*"} THEN Tail(word) ELSE word
IsLabelRef(w, k) ==
    HasOperand(w, k) /\ ~ParseI32(StripMarker(OperandWord(w, k))).ok

\* The number of instruction lines before line k: the index of the
\* instruction of line k, and the index a label declared on line k denotes.
InstrsBefore(w, k) == Cardinality({ j \in LineNos(w) : j < k /\ HasMnemonic(w, j) })

\* Where labels are declared, <<line, word>>, the empty label apart.
DeclSites(w) ==
    UNION { { <<k, i>> : i \in { j \in 1..LabelCount(w, k) : w[k][j] # <<":">> } }
            : k \in LineNos(w) }
DeclLines(w, name) == { t[1] : t \in { u \in DeclSites(w) : LabelAt(w, u[1], u[2]) = name } }
Declared(w) == { LabelAt(w, t[1], t[2]) : t \in DeclSites(w) }

Before(t, u) == t[1] < u[1] \/ (t[1] = u[1] /\ t[2] < u[2])

\* The declarations of a name that an earlier site declares already.
Redeclarations(w) ==
    LET sites == DeclSites(w)
    IN  { u \in sites :
            \E t \in sites :
                Before(t, u) /\ LabelAt(w, t[1], t[2]) = LabelAt(w, u[1], u[2]) }
First(sites) == CHOOSE t \in sites : \A u \in sites : ~Before(u, t)

\* A line with an empty label or with a word that is no mnemonic in the
\* place of the mnemonic.
EmptyLabelIn(w, k, n) ==
    \E i \in 1..n : i <= LabelCount(w, k) /\ w[k][i] = <<":">>
BadMnemonic(w, k) ==
    HasMnemonic(w, k) /\ \A c \in OpCodes : Mnemonic(c) # MnemonicWord(w, k)
LineDefect(w, k) == EmptyLabelIn(w, k, LabelCount(w, k)) \/ BadMnemonic(w, k)

ByNew == entry = "parse_source_new"
ByLegacy == entry = "parse_source"
Succeeded == entry # "none" /\ result.kind = "Ok"

\* C4: label resolution is order-independent. After a successful assembly
\* the operand of every instruction that names a label is the index the
\* label denotes, whether the label is declared before or after that line.
C4_LabelOrderIndependent ==
    Succeeded =>
        \A w \in { SrcWords } :
            \A k \in LineNos(w) :
                IsLabelRef(w, k) =>
                    /\ DeclLines(w, OperandWord(w, k)) # {}
                    /\ \A d \in DeclLines(w, OperandWord(w, k)) :
                           result.instructions[InstrsBefore(w, k) + 1].op_value
                               = InstrsBefore(w, d)

\* One label referenced by a line before and a line after its declaration.
C4_Witness ==
    /\ Succeeded /\ ByNew
    /\ \E w \in { SrcWords } :
         \E k1, d, k2 \in LineNos(w) :
             /\ k1 < d /\ d < k2
             /\ IsLabelRef(w, k1) /\ IsLabelRef(w, k2)
             /\ OperandWord(w, k1) = OperandWord(w, k2)
             /\ d \in DeclLines(w, OperandWord(w, k1))
             /\ result.instructions[InstrsBefore(w, k1) + 1].op_value = 1
             /\ result.instructions[InstrsBefore(w, k2) + 1].op_value = 1

\* The lines whose operand names no literal, and those of them whose operand
\* word no line declares.
RefLines(w) == { k \in LineNos(w) : IsLabelRef(w, k) }
UndeclaredRefLines(w) ==
    LET declared == Declared(w)
    IN  { k \in RefLines(w) : OperandWord(w, k) \notin declared }
FirstUndeclared(w) ==
    LET lines == UndeclaredRefLines(w)
    IN  OperandWord(w, CHOOSE k \in lines : \A j \in lines : k <= j)
NoLineError(w) == Redeclarations(w) = {} /\ \A k \in LineNos(w) : ~LineDefect(w, k)

C6_DuplicateLabelFails ==
    entry # "none" =>
        \A w \in { SrcWords } :
            Redeclarations(w) # {} =>
                /\ result.kind = "ReapeatingLabelError"
                /\ \E t \in Redeclarations(w) : result.text = LabelAt(w, t[1], t[2])

\* An empty label or a word that is no mnemonic is met before word i of line k.
DefectBefore(w, k, i) ==
    \/ \E j \in LineNos(w) : j < k /\ LineDefect(w, j)
    \/ EmptyLabelIn(w, k, i - 1)

\* C6 as amended: such a source returns no instructions. parse_source
\* panics on it. parse_source_new fails with the duplicate-label error for
\* the first name declared again, at the line of that declaration, unless an
\* empty label or an invalid instruction comes before it in the source,
\* which is then the error; referenced or not.
C6_DuplicateLabelFailsUnlessEarlierError ==
    entry # "none" =>
        \A w \in { SrcWords } :
            Redeclarations(w) # {} =>
                LET t == First(Redeclarations(w))
                IN  /\ result.instructions = <<>>
                    /\ ByLegacy => result.kind = "Panic"
                    /\ ByNew =>
                         IF DefectBefore(w, t[1], t[2])
                         THEN /\ result.kind \in {"InvalidInstructionError",
                                                  "EmptyLabelError"}
                              /\ result.line <= t[1]
                         ELSE /\ result.kind = "ReapeatingLabelError"
                              /\ result.text = LabelAt(w, t[1], t[2])
                              /\ result.line = t[1]

\* A label declared on two lines and referenced by no operand.
C6_Witness ==
    /\ ByNew /\ result.kind = "ReapeatingLabelError"
    /\ result.line = 3
    /\ \E w \in { SrcWords } :
         /\ RefLines(w) = {}
         /\ \E k \in LineNos(w) : HasMnemonic(w, k)
         /\ \A t \in Redeclarations(w) : t[1] = 3

\* C7: after a successful assembly there is one instruction per line that is
\* not empty, not comment-only and not label-only, and the k-th one is that
\* of the k-th such line.
C7_OneInstructionPerLine ==
    Succeeded =>
        \A w \in { SrcWords } :
            /\ Len(result.instructions)
                   = Cardinality({ k \in LineNos(w) : HasMnemonic(w, k) })
            /\ \A k \in LineNos(w) :
                 HasMnemonic(w, k) =>
                    Mnemonic(result.instructions[InstrsBefore(w, k) + 1].op_code)
                        = MnemonicWord(w, k)

\* Two different instructions after a line that emits none.
C7_Witness ==
    /\ Succeeded /\ ByNew
    /\ Len(result.instructions) = 2
    /\ result.instructions[1].op_code # result.instructions[2].op_code
    /\ \E w \in { SrcWords } : Len(w) = 3 /\ ~HasMnemonic(w, 1)

\* The line the error in result came from, as the grammar reads the source.
CausedBy(w, k) ==
    CASE result.kind = "InvalidInstructionError" -> BadMnemonic(w, k)
      [] result.kind = "EmptyLabelError" -> EmptyLabelIn(w, k, LabelCount(w, k))
      [] result.kind = "ReapeatingLabelError" ->
            \E t \in Redeclarations(w) : t[1] = k
      [] result.kind = "LabelNotFound" -> k \in UndeclaredRefLines(w)

\* C18: every error parse_source_new returns carries the 1-based number of
\* the line that caused it, counted over all lines of the source.
C18_ErrorsCarryLineNumber ==
    (ByNew /\ result.kind \in LineErrors \cup {"LabelNotFound"}) =>
        \A w \in { SrcWords } :
            result.line \in LineNos(w) /\ CausedBy(w, result.line)

\* What of C18 the code does: the three errors raised while a line is parsed
\* carry the number of that line.
C18_LineErrorsCarryLineNumber ==
    (ByNew /\ result.kind \in LineErrors) =>
        \A w \in { SrcWords } :
            result.line \in LineNos(w) /\ CausedBy(w, result.line)

\* The first line that declares the label, and the first line at or after
\* line k that holds an instruction (0: there is none).
FirstDeclLine(w, name) ==
    CHOOSE k \in DeclLines(w, name) : \A j \in DeclLines(w, name) : k <= j
InstrLinesFrom(w, k) == { j \in LineNos(w) : j >= k /\ HasMnemonic(w, j) }
FirstInstrLineFrom(w, k) ==
    IF InstrLinesFrom(w, k) = {} THEN 0
    ELSE CHOOSE j \in InstrLinesFrom(w, k) : \A i \in InstrLinesFrom(w, k) : j <= i

\* C23: a label is recorded with the number of instructions emitted before
\* its line. After a successful assembly every declared label is in the
\* table; it denotes the index of the first instruction on or after its line,
\* which is the same for the labels of one line and of label-only lines that
\* follow each other, and the instruction count when no instruction follows.
C23_LabelDenotesNextInstruction ==
    entry # "none" =>
        \A w \in { SrcWords } :
            /\ \A name \in DOMAIN label_map :
                   /\ name \in Declared(w)
                   /\ label_map[name] = InstrsBefore(w, FirstDeclLine(w, name))
            /\ Succeeded =>
                   /\ DOMAIN label_map = Declared(w)
                   /\ \A name \in Declared(w) :
                          \A j \in { FirstInstrLineFrom(w, FirstDeclLine(w, name)) } :
                              IF j = 0
                              THEN label_map[name] = Len(result.instructions)
                              ELSE /\ label_map[name] < Len(result.instructions)
                                   /\ label_map[name] = InstrsBefore(w, j)
                                   /\ Mnemonic(result.instructions[label_map[name] + 1].op_code)
                                          = MnemonicWord(w, j)

\* After one instruction, a on a line of its own and b in front of STORE 3 on
\* the next line both denote index 1.
C23_Witness ==
    /\ Succeeded /\ ByNew
    /\ Len(result.instructions) = 2
    /\ DOMAIN label_map = { <<"a">>, <<"b">> }
    /\ label_map[<<"a">>] = 1 /\ label_map[<<"b">>] = 1
    /\ result.instructions[2].op_code = "STORE"

\* C24: an operand that is no integer once its marker = or * is stripped
\* names a label. After a successful assembly its instruction is Immediate
\* whatever the marker, and its operand is the index the label table holds
\* for the name without the marker, not the placeholder.
C24_LabelReferenceResolved ==
    Succeeded =>
        \A w \in { SrcWords } :
            \A k \in LineNos(w) :
                IsLabelRef(w, k) =>
                    LET inst == result.instructions[InstrsBefore(w, k) + 1]
                        name == StripMarker(OperandWord(w, k))
                    IN  /\ inst.op_type = "Value"
                        /\ name \in DOMAIN label_map
                        /\ inst.op_value = label_map[name]
                        /\ inst.op_value >= 0

\* What of C24 the code does: the name that is looked up is the operand as
\* it is written, marker included.
C24_LabelReferenceResolvedAsWritten ==
    Succeeded =>
        \A w \in { SrcWords } :
            \A k \in LineNos(w) :
                IsLabelRef(w, k) =>
                    LET inst == result.instructions[InstrsBefore(w, k) + 1]
                        name == OperandWord(w, k)
                    IN  /\ inst.op_type = "Value"
                        /\ name \in DOMAIN label_map
                        /\ inst.op_value = label_map[name]
                        /\ inst.op_value >= 0

-----------------------------------------------------------------------------
(* Properties of the assembler line by line, checked under SpecLines *)

ByLine == entry' = "parse_instruction_new"

\* The words of the line the call is given, as a source of one line.
LineWords == << SplitWhitespace(source') >>

\* No mnemonic remains after the labels: the line is blank, a comment,
\* labels only, or labels followed by a comment.
NoMnemonic(w, k) ==
    \/ w[k] = <<>>
    \/ IsComment(w, k)
    \/ LabelCount(w, k) = Len(w[k])
    \/ Head(w[k][LabelCount(w, k) + 1]) = ";"

\* The labels of the line are not empty, not in the table, and differ.
LabelsAreNew(w, k) ==
    /\ ~EmptyLabelIn(w, k, LabelCount(w, k))
    /\ \A i \in 1..LabelCount(w, k) :
           /\ LabelAt(w, k, i) \notin DOMAIN label_map
           /\ \A j \in 1..(i - 1) : LabelAt(w, k, j) # LabelAt(w, k, i)

\* C25: a line without a mnemonic after its label declarations (blank, a
\* comment, labels only, labels and then a comment) emits no instruction,
\* leaves the cursor as it is and is no error.
C25_NoMnemonicNoInstruction ==
    [][ ByLine =>
          \A w \in { LineWords } :
              (NoMnemonic(w, 1) /\ LabelsAreNew(w, 1)) =>
                  /\ result'.kind \notin LineErrors
                  /\ result'.instructions = <<>>
                  /\ cursor' = cursor ]_vars

\* What of C25 the code does: the same for the lines on which no word
\* follows the labels.
C25_NoWordNoInstruction ==
    [][ ByLine =>
          \A w \in { LineWords } :
              ((w[1] = <<>> \/ IsComment(w, 1) \/ LabelCount(w, 1) = Len(w[1]))
                  /\ LabelsAreNew(w, 1)) =>
                  /\ result'.kind \in {"EmptyLine", "Comment", "JumpLabel"}
                  /\ result'.instructions = <<>>
                  /\ cursor' = cursor ]_vars

\* C26: a line whose mnemonic, any of the twelve, is followed by the end of
\* the line or by a comment assembles without error to an instruction with
\* no addressing mode and operand 0, and the cursor grows by one.
C26_NoOperandInstruction ==
    [][ ByLine =>
          \A w \in { LineWords } :
              (/\ HasMnemonic(w, 1) /\ ~BadMnemonic(w, 1)
               /\ ~HasOperand(w, 1) /\ LabelsAreNew(w, 1)) =>
                  /\ result'.kind = "Instruction"
                  /\ \E c \in OpCodes :
                         /\ Mnemonic(c) = MnemonicWord(w, 1)
                         /\ result'.instructions = << Instruction(c, "NoValue", 0) >>
                  /\ cursor' = cursor + 1 ]_vars

\* The second instruction is ADD with a comment in the place of its operand.
C26_Witness ==
    /\ entry = "parse_instruction_new"
    /\ source = <<"A", "D", "D", " ", ";", "c">>
    /\ result.kind = "Instruction"
    /\ result.instructions = << Instruction("ADD", "NoValue", 0) >>
    /\ cursor = 2

-----------------------------------------------------------------------------
(* Properties of the tokenizer, checked under SpecTokens *)

\* Where the first semicolon of the line is (0: the line has none).
FirstSemicolon(line) ==
    IF \A i \in 1..Len(line) : line[i] # ";" THEN 0
    ELSE CHOOSE i \in 1..Len(line) :
           line[i] = ";" /\ \A j \in 1..(i - 1) : line[j] # ";"

\* The tokens a call of parse_line has added.
NewTokens == SubSeq(tokens', Len(tokens) + 1, Len(tokens'))

\* The call has added one Comment token, which holds the text after the
\* first semicolon of the line and is the last token added.
CommentIsLast(line) ==
    \A new \in { NewTokens } :
        /\ new # <<>>
        /\ new[Len(new)] = Token("Comment", SubSeq(line, FirstSemicolon(line) + 1, Len(line)))
        /\ \A i \in 1..(Len(new) - 1) : new[i].type # "Comment"

\* C27: parse_line on a line that holds a semicolon makes the text after the
\* first semicolon one Comment token, and that token is the last the line
\* produces, also when the semicolon follows a word without whitespace.
C27_CommentEndsLine ==
    [][ (entry' = "parse_line" /\ FirstSemicolon(source') > 0) =>
          CommentIsLast(source') ]_vars

\* What of C27 the code does: the same when the semicolon starts the line or
\* follows whitespace.
C27_CommentEndsLineAfterWhitespace ==
    [][ (/\ entry' = "parse_line"
         /\ FirstSemicolon(source') > 0
         /\ \/ FirstSemicolon(source') = 1
            \/ source'[FirstSemicolon(source') - 1] \in Whitespace) =>
          CommentIsLast(source') ]_vars

-----------------------------------------------------------------------------
(* Properties of an assembled program that is run, checked under SpecDriver *)

\* The instruction the next call fetches has a label as its operand.
FetchesLabelRef ==
    /\ Fetches
    /\ \E w \in { SrcWords } :
          \E k \in LineNos(w) :
              IsLabelRef(w, k) /\ InstrsBefore(w, k) = instruction_pointer

\* Every label of the table and every operand that names a label is an
\* index of the assembled program or the instruction count.
LabelsInRange ==
    Succeeded =>
        /\ \A name \in DOMAIN label_map :
               label_map[name] \in 0..Len(result.instructions)
        /\ \A w \in { SrcWords } :
               \A k \in LineNos(w) :
                   IsLabelRef(w, k) =>
                       result.instructions[InstrsBefore(w, k) + 1].op_value
                           \in 0..Len(result.instructions)

\* C28: after a successful assembly on a new Parser every entry of the label
\* table and every operand filled in from it is in [0, instruction_count]; a
\* jump to a label leaves the pointer in that range, and after a jump to a
\* label behind the last instruction the next call ends the run: it returns
\* nothing, sets finished and changes nothing else.
C28_LabelsStayInRange ==
    /\ []LabelsInRange
    /\ [][ /\ (Step /\ FetchesLabelRef /\ TakenJump) =>
               /\ panic' = "none"
               /\ ret' = Some(Cur)
               /\ instruction_pointer' = Cur.op_value
               /\ instruction_pointer' \in 0..Len(instruction_stack)
          /\ (Step /\ loaded /\ ~finished /\ panic = "none"
                    /\ instruction_pointer = Len(instruction_stack)) =>
               /\ finished' /\ ret' = None /\ panic' = "none"
               /\ instruction_pointer' = instruction_pointer
               /\ registers' = registers /\ stdout' = stdout ]_vars

\* JUMP a with a declared on the line after it: the jump has left the pointer
\* at the instruction count 1, and the call after it has ended the run.
C28_Witness ==
    /\ Succeeded /\ loaded
    /\ instruction_stack = << Instruction("JUMP", "Value", 1) >>
    /\ label_map = (<<"a">> :> 1)
    /\ steps = 1 /\ instruction_pointer = 1
    /\ finished /\ ret = None /\ panic = "none"

-----------------------------------------------------------------------------
(* Properties of a Parser that is used again, checked under SpecReuse *)

\* Parser::default().
NewParser == [cursor |-> 0, missing_labels |-> <<>>, label_map |-> EmptyMap]

\* C19: what parse_source_new returns depends on the source text alone: it is
\* what a new Parser returns for that text, whatever the Parser has assembled
\* before.
C19_AssemblyDependsOnTextAlone ==
    ByNew => result = ParseSourceNewOn(NewParser, source).result

=============================================================================
